---- MODULE Spec2Model ----
(***************************************************************************)
(* State-machine model of contracts/SecretBid_FHE.sol: the auction         *)
(* registry, the bid ledger, the event log and the FHE access-control      *)
(* side effects of createAuction, placeBid and concludeAuction; and of the *)
(* effect of frontend/web/src/App.tsx that initialises the FHEVM client    *)
(* once the wallet is connected.                                           *)
(*                                                                         *)
(* Every external call is one atomic step.  A call that reverts leaves the *)
(* contract storage and the event log untouched; the only trace of it is   *)
(* the observation variable `last`, which records which function the       *)
(* latest step called, on which id, and how the call ended.                *)
(***************************************************************************)
EXTENDS Integers, Sequences, FiniteSets

VARIABLES now, auctionExists, auctions, bids, events,
          allowedThis, publiclyDecryptable, last,
          isConnected, isInitialized, fhevmInitializing, initialize,
          rendered, effectDue, inFlight, hookDone,
          transactionStatus, timers, invocations

vars == <<now, auctionExists, auctions, bids, events,
          allowedThis, publiclyDecryptable, last,
          isConnected, isInitialized, fhevmInitializing, initialize,
          rendered, effectDue, inFlight, hookDone,
          transactionStatus, timers, invocations>>

(* contract storage and log, i.e. everything a revert rolls back.  The     *)
(* events carry the indexed nftId topic; events[n] is the log filtered by  *)
(* that topic, in emission order.                                          *)
chain == <<auctionExists, auctions, bids, events,
           allowedThis, publiclyDecryptable>>

(* the state of the App component and of the hooks it reads; the contract *)
(* calls of this model are made without it                                *)
app == <<isConnected, isInitialized, fhevmInitializing, initialize,
         rendered, effectDue, inFlight, hookDone,
         transactionStatus, timers, invocations>>

----------------------------------------------------------------------------
(* Bounds of the model *)

UintBits == 13         \* width the uint256 timestamps are scaled to
MaxTime == 3           \* the clock stops advancing here
MaxVal == 1            \* plaintext bid values are 0..MaxVal
MaxBids == 2           \* accepted bids over all auctions
StartTime == 1         \* block.timestamp of the first block after deployment
MaxInits == 2          \* invocations of initialize() by the effect

MaxUint == 2 ^ UintBits - 1

NftIds == {"nft-1", "nft-2"}
CallIds == {"nft-1"}              \* ids the calls of Spec are made on;
                                  \* the slots of the other id stay unwritten
Bidders == {1, 2}                 \* msg.sender of placeBid; 0 is address(0)
Values == 0 .. MaxVal
Durations == {0, 1, MaxUint}

----------------------------------------------------------------------------
(* Ciphertext handles.  A handle is bound to one underlying plaintext.     *)

NullHandle == [kind |-> "null", user |-> 0, val |-> 0]      \* bytes32(0)
ZeroHandle == [kind |-> "trivial", user |-> 0, val |-> 0]   \* FHE.zero(16)
InputHandles == [kind : {"input"}, user : Bidders, val : Values]
Handles == {ZeroHandle} \cup InputHandles

(* the plaintext a handle encrypts *)
Plain(h) == h.val

(* The external ciphertext a sender submits is one the encryption client  *)
(* made for that sender, or the zero handle.  The proof attached to it is  *)
(* either the one the client issued for (ciphertext, sender, contract) or  *)
(* anything else: a forged proof, or one issued for another sender.        *)
InputProofs == {"genuine", "bad"}

ExternalInputs(sender) ==
    {h \in InputHandles : h.user = sender} \cup {NullHandle}

(* FHE.fromExternal: an uninitialised input passes through, any other     *)
(* input needs the proof to verify                                        *)
FHE_fromExternalOK(encryptedBid, inputProof) ==
    \/ encryptedBid = NullHandle
    \/ inputProof = "genuine"

FHE_isInitialized(h) == h # NullHandle

(* FHE.gt with its operands swapped *)
FHE_gt_swapped(a, b) == Plain(b) > Plain(a)

(* FHE.gt as resolved by the branch on line 76: the branch is taken       *)
(* exactly when the plaintext of a is greater than the plaintext of b     *)
FHE_gt(a, b) == Plain(a) > Plain(b)

(* decryption proofs: the KMS signature over (handle, its plaintext), or  *)
(* garbage.  A genuine proof is named by the handle it was issued for.    *)
BadProof == [kind |-> "bad", user |-> 0, val |-> 0]
DecryptionProofs == Handles \cup {BadProof}

(* a check that accepts every proof and cleartext *)
FHE_checkSignatures_anyProof(ct, abiEncodedClearBid, decryptionProof) == TRUE

(* a check that verifies the proof against the handle but not the        *)
(* cleartext it is supplied with                                          *)
FHE_checkSignatures_anyClear(ct, abiEncodedClearBid, decryptionProof) ==
    decryptionProof = ct

(* FHE.checkSignatures(cts, cleartexts, proof) for a single handle *)
FHE_checkSignatures(ct, abiEncodedClearBid, decryptionProof) ==
    /\ decryptionProof = ct
    /\ abiEncodedClearBid = Plain(ct)

----------------------------------------------------------------------------
(* Outcomes *)

OK == "ok"
NotFound == "Auction does not exist"
Inactive == "Auction is not active"
NotYetOpen == "Auction has not started"
Expired == "Auction has ended"
AlreadyExists == "Auction already exists"
Overflow == "Panic(0x11)"
InvalidInput == "FHE.fromExternal reverted"
InvalidCiphertext == "Invalid encrypted bid"
StillActive == "Auction is still active"
AlreadyConcluded == "Auction already concluded"
InvalidProof == "FHE.checkSignatures reverted"
InvalidIndex == "Invalid bid index"
ArrayPanic == "Panic(0x32)"

(* storage default of an unwritten mapping slot *)
EmptyAuction == [startTime |-> 0, endTime |-> 0, highestBidder |-> 0,
                 highestBid |-> NullHandle, isActive |-> FALSE]

RECURSIVE SumLen(_)
SumLen(S) == IF S = {} THEN 0
             ELSE LET n == CHOOSE x \in S : TRUE
                  IN  Len(bids[n]) + SumLen(S \ {n})

TotalBids == SumLen(NftIds)

----------------------------------------------------------------------------
(* the contract right after its constructor *)
Deployed ==
    /\ auctionExists = [n \in NftIds |-> FALSE]
    /\ auctions = [n \in NftIds |-> EmptyAuction]
    /\ bids = [n \in NftIds |-> << >>]
    /\ events = [n \in NftIds |-> << >>]
    /\ allowedThis = {}
    /\ publiclyDecryptable = {}
    /\ last = [op |-> "deploy"]

(* the dependency array of the effect, line 68 *)
Deps ==
    [isConnected |-> isConnected, isInitialized |-> isInitialized,
     initialize |-> initialize, fhevmInitializing |-> fhevmInitializing]

(* the App component after its first render: the effect of lines 47-68 is *)
(* due, the wallet connected or not                                       *)
Mounted(connected) ==
    /\ isConnected = connected
    /\ isInitialized = FALSE
    /\ fhevmInitializing = FALSE
    /\ initialize = 0
    /\ rendered = [isConnected |-> connected, isInitialized |-> FALSE,
                   initialize |-> 0, fhevmInitializing |-> FALSE]
    /\ effectDue = TRUE
    /\ inFlight = 0
    /\ hookDone = FALSE
    /\ transactionStatus = "hidden"
    /\ timers = 0
    /\ invocations = 0

Init ==
    /\ now = StartTime
    /\ Deployed
    /\ Mounted(FALSE)

(* block.timestamp advances between calls *)
Tick ==
    /\ now < MaxTime
    /\ now' = now + 1
    /\ last' = [op |-> "tick"]
    /\ UNCHANGED chain
    /\ UNCHANGED app

----------------------------------------------------------------------------
(* createAuction *)

(* createAuction with one existence flag for all ids *)
createAuctionResult_anyExists(nftId, duration) ==
    IF \E n \in NftIds : auctionExists[n] THEN AlreadyExists
    ELSE IF now + duration > MaxUint THEN Overflow
    ELSE OK

(* createAuction without the require of line 44 *)
createAuctionResult_noExistsCheck(nftId, duration) ==
    IF now + duration > MaxUint THEN Overflow ELSE OK

(* createAuction whose line 44 tests the active flag of the slot instead  *)
(* of the existence flag                                                   *)
createAuctionResult_activeCheck(nftId, duration) ==
    IF auctions[nftId].isActive THEN AlreadyExists
    ELSE IF now + duration > MaxUint THEN Overflow
    ELSE OK

(* createAuction with the addition of line 46 in an unchecked block *)
createAuctionResult_unchecked(nftId, duration) ==
    IF auctionExists[nftId] THEN AlreadyExists ELSE OK

createAuctionResult(nftId, duration) ==
    IF auctionExists[nftId] THEN AlreadyExists
    ELSE IF now + duration > MaxUint THEN Overflow
    ELSE OK

(* a struct whose endTime forgets the duration *)
NewAuction_noDuration(startTime, endTime) ==
    [startTime |-> startTime, endTime |-> startTime, highestBidder |-> 0,
     highestBid |-> ZeroHandle, isActive |-> TRUE]

(* lines 48-55: the struct written to auctions[nftId] *)
NewAuction(startTime, endTime) ==
    [startTime |-> startTime, endTime |-> endTime, highestBidder |-> 0,
     highestBid |-> ZeroHandle, isActive |-> TRUE]

createAuction(nftId, duration) ==
    LET res == createAuctionResult(nftId, duration)
        startTime == now
        endTime == startTime + duration
    IN  /\ last' = [op |-> "createAuction", nftId |-> nftId, res |-> res,
                    duration |-> duration]
        /\ now' = now
        /\ UNCHANGED app
        /\ IF res = OK
           THEN /\ auctions' = [auctions EXCEPT ![nftId] =
                        NewAuction(startTime, endTime)]
                /\ auctionExists' = [auctionExists EXCEPT ![nftId] = TRUE]
                /\ events' = [events EXCEPT ![nftId] = Append(@,
                        [name |-> "AuctionCreated", nftId |-> nftId,
                         startTime |-> startTime, endTime |-> endTime])]
                /\ UNCHANGED <<bids, allowedThis, publiclyDecryptable>>
           ELSE UNCHANGED chain

----------------------------------------------------------------------------
(* placeBid *)

(* the modifier without the require of line 34 *)
onlyActiveAuction_noEndCheck(nftId) ==
    IF ~auctionExists[nftId] THEN NotFound
    ELSE IF ~auctions[nftId].isActive THEN Inactive
    ELSE IF ~(now >= auctions[nftId].startTime) THEN NotYetOpen
    ELSE OK

(* the modifier with its requires in the order existence, start, end,     *)
(* active                                                                  *)
onlyActiveAuction_activeLast(nftId) ==
    IF ~auctionExists[nftId] THEN NotFound
    ELSE IF ~(now >= auctions[nftId].startTime) THEN NotYetOpen
    ELSE IF ~(now <= auctions[nftId].endTime) THEN Expired
    ELSE IF ~auctions[nftId].isActive THEN Inactive
    ELSE OK

onlyActiveAuction(nftId) ==
    IF ~auctionExists[nftId] THEN NotFound
    ELSE IF ~auctions[nftId].isActive THEN Inactive
    ELSE IF ~(now >= auctions[nftId].startTime) THEN NotYetOpen
    ELSE IF ~(now <= auctions[nftId].endTime) THEN Expired
    ELSE OK

(* placeBid declared without the onlyActiveAuction modifier *)
placeBidResult_noModifier(nftId, sender, encryptedBid, inputProof) ==
    IF ~FHE_fromExternalOK(encryptedBid, inputProof) THEN InvalidInput
    ELSE IF ~FHE_isInitialized(encryptedBid) THEN InvalidCiphertext
    ELSE OK

(* placeBid that does not verify the input proof *)
placeBidResult_noProofCheck(nftId, sender, encryptedBid, inputProof) ==
    IF onlyActiveAuction(nftId) # OK THEN onlyActiveAuction(nftId)
    ELSE IF ~FHE_isInitialized(encryptedBid) THEN InvalidCiphertext
    ELSE OK

placeBidResult(nftId, sender, encryptedBid, inputProof) ==
    IF onlyActiveAuction(nftId) # OK THEN onlyActiveAuction(nftId)
    ELSE IF ~FHE_fromExternalOK(encryptedBid, inputProof)
         THEN InvalidInput
    ELSE IF ~FHE_isInitialized(encryptedBid) THEN InvalidCiphertext
    ELSE OK

(* an update that is taken whatever the comparison says *)
updateHighest_always(auction, encryptedBidValue, sender) ==
    [auction EXCEPT !.highestBid = encryptedBidValue,
                    !.highestBidder = sender]

(* an update that forgets line 78 *)
updateHighest_keepBidder(auction, encryptedBidValue, sender) ==
    IF FHE_gt(encryptedBidValue, auction.highestBid)
    THEN [auction EXCEPT !.highestBid = encryptedBidValue]
    ELSE auction

(* an update with line 78 after the closing brace of the if *)
updateHighest_bidderAlways(auction, encryptedBidValue, sender) ==
    IF FHE_gt(encryptedBidValue, auction.highestBid)
    THEN [auction EXCEPT !.highestBid = encryptedBidValue,
                         !.highestBidder = sender]
    ELSE [auction EXCEPT !.highestBidder = sender]

(* lines 76-79: the running maximum after the comparison *)
updateHighest(auction, encryptedBidValue, sender) ==
    IF FHE_gt(encryptedBidValue, auction.highestBid)
    THEN [auction EXCEPT !.highestBid = encryptedBidValue,
                         !.highestBidder = sender]
    ELSE auction

(* a push that puts the new bid in front of the ledger *)
pushBid_front(ledger, newBid) == <<newBid>> \o ledger

(* line 74: bids[nftId].push(newBid) *)
pushBid(ledger, newBid) == Append(ledger, newBid)

placeBid(nftId, sender, encryptedBid, inputProof) ==
    LET res == placeBidResult(nftId, sender, encryptedBid, inputProof)
        newBid == [bidder |-> sender, encryptedBid |-> encryptedBid,
                   timestamp |-> now]
    IN  /\ last' = [op |-> "placeBid", nftId |-> nftId, res |-> res]
        /\ now' = now
        /\ UNCHANGED app
        /\ IF res = OK
           THEN /\ bids' = [bids EXCEPT ![nftId] = pushBid(@, newBid)]
                /\ auctions' = [auctions EXCEPT ![nftId] =
                        updateHighest(@, encryptedBid, sender)]
                /\ allowedThis' = allowedThis \cup {encryptedBid}
                /\ publiclyDecryptable' =
                        publiclyDecryptable \cup {encryptedBid}
                /\ events' = [events EXCEPT ![nftId] = Append(@,
                        [name |-> "BidPlaced", nftId |-> nftId,
                         bidder |-> sender])]
                /\ UNCHANGED auctionExists
           ELSE UNCHANGED chain

----------------------------------------------------------------------------
(* concludeAuction *)

(* concludeAuction without the require of line 94 *)
concludeAuctionResult_noActive(nftId, abiEncodedClearBid, decryptionProof) ==
    IF ~auctionExists[nftId] THEN NotFound
    ELSE IF ~(now > auctions[nftId].endTime) THEN StillActive
    ELSE IF ~FHE_checkSignatures(auctions[nftId].highestBid,
                                 abiEncodedClearBid, decryptionProof)
         THEN InvalidProof
    ELSE OK

(* concludeAuction without the require of line 93 *)
concludeAuctionResult_noWindow(nftId, abiEncodedClearBid, decryptionProof) ==
    IF ~auctionExists[nftId] THEN NotFound
    ELSE IF ~auctions[nftId].isActive THEN AlreadyConcluded
    ELSE IF ~FHE_checkSignatures(auctions[nftId].highestBid,
                                 abiEncodedClearBid, decryptionProof)
         THEN InvalidProof
    ELSE OK

(* concludeAuction with >= for > on line 93 *)
concludeAuctionResult_atEnd(nftId, abiEncodedClearBid, decryptionProof) ==
    IF ~auctionExists[nftId] THEN NotFound
    ELSE IF ~(now >= auctions[nftId].endTime) THEN StillActive
    ELSE IF ~auctions[nftId].isActive THEN AlreadyConcluded
    ELSE IF ~FHE_checkSignatures(auctions[nftId].highestBid,
                                 abiEncodedClearBid, decryptionProof)
         THEN InvalidProof
    ELSE OK

(* concludeAuction that also requires a highest bidder *)
concludeAuctionResult_needsBidder(nftId, abiEncodedClearBid, decryptionProof) ==
    IF ~auctionExists[nftId] THEN NotFound
    ELSE IF ~(now > auctions[nftId].endTime) THEN StillActive
    ELSE IF ~auctions[nftId].isActive THEN AlreadyConcluded
    ELSE IF auctions[nftId].highestBidder = 0 THEN "No bids placed"
    ELSE IF ~FHE_checkSignatures(auctions[nftId].highestBid,
                                 abiEncodedClearBid, decryptionProof)
         THEN InvalidProof
    ELSE OK

(* concludeAuction with the require of line 92 after those of lines 93-94 *)
concludeAuctionResult_existsLast(nftId, abiEncodedClearBid, decryptionProof) ==
    IF ~(now > auctions[nftId].endTime) THEN StillActive
    ELSE IF ~auctions[nftId].isActive THEN AlreadyConcluded
    ELSE IF ~auctionExists[nftId] THEN NotFound
    ELSE IF ~FHE_checkSignatures(auctions[nftId].highestBid,
                                 abiEncodedClearBid, decryptionProof)
         THEN InvalidProof
    ELSE OK

concludeAuctionResult(nftId, abiEncodedClearBid, decryptionProof) ==
    IF ~auctionExists[nftId] THEN NotFound
    ELSE IF ~(now > auctions[nftId].endTime) THEN StillActive
    ELSE IF ~auctions[nftId].isActive THEN AlreadyConcluded
    ELSE IF ~FHE_checkSignatures(auctions[nftId].highestBid,
                                 abiEncodedClearBid, decryptionProof)
         THEN InvalidProof
    ELSE OK

(* a conclusion that leaves the flag as it is *)
deactivate_skipped(auction) == auction

(* line 104: auctions[nftId].isActive = false *)
deactivate(auction) == [auction EXCEPT !.isActive = FALSE]

concludeAuction(nftId, abiEncodedClearBid, decryptionProof) ==
    LET res == concludeAuctionResult(nftId, abiEncodedClearBid,
                                     decryptionProof)
        winningBid == abiEncodedClearBid    \* the uint32 the word encodes
        winner == auctions[nftId].highestBidder
    IN  /\ last' = [op |-> "concludeAuction", nftId |-> nftId, res |-> res]
        /\ now' = now
        /\ UNCHANGED app
        /\ IF res = OK
           THEN /\ auctions' = [auctions EXCEPT ![nftId] = deactivate(@)]
                /\ events' = [events EXCEPT ![nftId] = Append(@,
                        [name |-> "AuctionConcluded", nftId |-> nftId,
                         winner |-> winner, winningBid |-> winningBid])]
                /\ UNCHANGED <<auctionExists, bids, allowedThis,
                               publiclyDecryptable>>
           ELSE UNCHANGED chain

----------------------------------------------------------------------------
(* views *)

(* lines 109-112 *)
getHighestBid(nftId) ==
    IF ~auctionExists[nftId] THEN [res |-> NotFound, val |-> NullHandle]
    ELSE [res |-> OK, val |-> auctions[nftId].highestBid]

(* lines 114-130; the nftId field of the struct is the key it is stored   *)
(* under (line 49)                                                        *)
getAuctionDetails(nftId) ==
    IF ~auctionExists[nftId] THEN [res |-> NotFound, val |-> << >>]
    ELSE LET auction == auctions[nftId]
         IN  [res |-> OK,
              val |-> <<nftId, auction.startTime, auction.endTime,
                        auction.highestBidder, auction.isActive>>]

getBidCount(nftId) ==
    IF ~auctionExists[nftId] THEN [res |-> NotFound, val |-> 0]
    ELSE [res |-> OK, val |-> Len(bids[nftId])]

(* the uint256 index argument of getBid: the positions of a full ledger,  *)
(* the first positions past it, and the largest uint256                   *)
Indexes == (0 .. MaxBids + 1) \cup {MaxUint}

(* getBid with <= for < on line 143: the read of bids[nftId][length]      *)
(* panics                                                                 *)
getBid_inclusive(nftId, index) ==
    IF ~auctionExists[nftId] THEN [res |-> NotFound, val |-> << >>]
    ELSE IF ~(index <= Len(bids[nftId]))
         THEN [res |-> InvalidIndex, val |-> << >>]
    ELSE IF index = Len(bids[nftId]) THEN [res |-> ArrayPanic, val |-> << >>]
    ELSE LET bid == bids[nftId][index + 1]
         IN  [res |-> OK,
              val |-> <<bid.bidder, bid.encryptedBid, bid.timestamp>>]

(* lines 137-146; the array of the contract is indexed from 0, the        *)
(* sequence of the model from 1                                           *)
getBid(nftId, index) ==
    IF ~auctionExists[nftId] THEN [res |-> NotFound, val |-> << >>]
    ELSE IF ~(index < Len(bids[nftId]))
         THEN [res |-> InvalidIndex, val |-> << >>]
    ELSE LET bid == bids[nftId][index + 1]
         IN  [res |-> OK,
              val |-> <<bid.bidder, bid.encryptedBid, bid.timestamp>>]

----------------------------------------------------------------------------
Next ==
    \/ Tick
    \/ \E nftId \in CallIds, duration \in Durations :
            createAuction(nftId, duration)
    \/ \E nftId \in CallIds, sender \in Bidders, inputProof \in InputProofs :
       \E encryptedBid \in ExternalInputs(sender) :
            /\ placeBidResult(nftId, sender, encryptedBid, inputProof) = OK
                  => TotalBids < MaxBids
            /\ placeBid(nftId, sender, encryptedBid, inputProof)
    \/ \E nftId \in CallIds, abiEncodedClearBid \in Values,
          decryptionProof \in DecryptionProofs :
            concludeAuction(nftId, abiEncodedClearBid, decryptionProof)

Spec == Init /\ [][Next]_vars

----------------------------------------------------------------------------
(* Two auctions side by side.  The calls are made on every id of NftIds,  *)
(* by one bidder, with the largest plaintext or an uninitialised input,   *)
(* and the conclusion carries the pair attested for the stored handle or  *)
(* a bad proof.                                                            *)

FrameBidder == CHOOSE b \in Bidders : \A c \in Bidders : b <= c

FrameInputs ==
    {h \in ExternalInputs(FrameBidder) : h = NullHandle \/ h.val = MaxVal}

NextFrame ==
    \/ Tick
    \/ \E nftId \in NftIds, duration \in Durations :
            createAuction(nftId, duration)
    \/ \E nftId \in NftIds, inputProof \in InputProofs,
          encryptedBid \in FrameInputs :
            /\ placeBidResult(nftId, FrameBidder, encryptedBid, inputProof) = OK
                  => TotalBids < MaxBids
            /\ placeBid(nftId, FrameBidder, encryptedBid, inputProof)
    \/ \E nftId \in NftIds :
       \E decryptionProof \in {auctions[nftId].highestBid, BadProof} :
            concludeAuction(nftId, Plain(auctions[nftId].highestBid),
                            decryptionProof)

SpecFrame == Init /\ [][NextFrame]_vars

----------------------------------------------------------------------------
(* One auction driven by a fixed script of calls, each made at its own    *)
(* time of a clock that advances in steps.  A call of the script may be   *)
(* left out or repeated; the ledger is capped at the length of the script *)
(* of bids.                                                                *)

ScenarioId == "nft-1"
ScenarioClock == [start |-> 1000, step |-> 100, stop |-> 5000]
ScenarioCreate == [at |-> 1000, duration |-> 3600]
ScenarioBids == << [at |-> 1100, bidder |-> 1, value |-> 50],
                   [at |-> 1200, bidder |-> 2, value |-> 80],
                   [at |-> 1300, bidder |-> 3, value |-> 30] >>
ScenarioConclude == [at |-> 4700, clear |-> 80, bid |-> 2]
ScenarioLate == [at |-> 5000, bidder |-> 1, value |-> 90]

(* the ciphertext the encryption client makes of a bid of the script *)
ScenarioHandle(b) == [kind |-> "input", user |-> b.bidder, val |-> b.value]

InitScenario ==
    /\ now = ScenarioClock.start
    /\ Deployed
    /\ Mounted(FALSE)

ScenarioTick ==
    /\ now < ScenarioClock.stop
    /\ now' = now + ScenarioClock.step
    /\ last' = [op |-> "tick"]
    /\ UNCHANGED chain
    /\ UNCHANGED app

ScenarioPlaceBid(b) ==
    /\ now = b.at
    /\ placeBidResult(ScenarioId, b.bidder, ScenarioHandle(b), "genuine") = OK
          => Len(bids[ScenarioId]) < Len(ScenarioBids)
    /\ placeBid(ScenarioId, b.bidder, ScenarioHandle(b), "genuine")

NextScenario ==
    \/ ScenarioTick
    \/ /\ now = ScenarioCreate.at
       /\ createAuction(ScenarioId, ScenarioCreate.duration)
    \/ \E k \in 1 .. Len(ScenarioBids) : ScenarioPlaceBid(ScenarioBids[k])
    \/ /\ now = ScenarioConclude.at
       /\ concludeAuction(ScenarioId, ScenarioConclude.clear,
                          ScenarioHandle(ScenarioBids[ScenarioConclude.bid]))
    \/ ScenarioPlaceBid(ScenarioLate)

SpecScenario == InitScenario /\ [][NextScenario]_vars

----------------------------------------------------------------------------
(* The effect of App.tsx, lines 47-68.  React runs the effect after the   *)
(* first render and after every render in which a value of the dependency *)
(* array differs from the one of the render before; the function it runs  *)
(* reads the values of that render.  The effects of a render are flushed  *)
(* before the next render starts, but the wallet, the hook and a settling *)
(* promise may change the state in between.                               *)

(* the guard of lines 49-50 accepting while an invocation is pending *)
effectInvokes_noPendingGuard(r) ==
    r.isConnected /\ ~r.isInitialized

(* the guard of lines 49-50 without the test of isConnected *)
effectInvokes_noConnectedGuard(r) ==
    ~(r.isInitialized \/ r.fhevmInitializing)

(* lines 49-50: the effect of a render with values r goes on to call      *)
(* initialize()                                                           *)
effectInvokes(r) ==
    /\ ~(~r.isConnected)
    /\ ~(r.isInitialized \/ r.fhevmInitializing)

(* setFhevmInitializing(false) at the end of the try block instead of the *)
(* finally block                                                          *)
afterSettle_tryOnly(flag, outcome) ==
    IF outcome = "resolved" THEN FALSE ELSE flag

(* lines 63-65: fhevmInitializing after the awaited promise has settled   *)
afterSettle(flag, outcome) == FALSE

(* wagmi's useAccount reports a connection or a disconnection *)
Connect ==
    /\ ~isConnected
    /\ isConnected' = TRUE
    /\ last' = [op |-> "connect"]
    /\ UNCHANGED <<isInitialized, fhevmInitializing, initialize, rendered,
                   effectDue, inFlight, hookDone, transactionStatus, timers,
                   invocations>>
    /\ UNCHANGED <<now, chain>>

Disconnect ==
    /\ isConnected
    /\ isConnected' = FALSE
    /\ last' = [op |-> "disconnect"]
    /\ UNCHANGED <<isInitialized, fhevmInitializing, initialize, rendered,
                   effectDue, inFlight, hookDone, transactionStatus, timers,
                   invocations>>
    /\ UNCHANGED <<now, chain>>

(* useFhevm returns a new initialize function *)
InitializeChanged ==
    /\ initialize' = 1 - initialize
    /\ last' = [op |-> "initializeChanged"]
    /\ UNCHANGED <<isConnected, isInitialized, fhevmInitializing, rendered,
                   effectDue, inFlight, hookDone, transactionStatus, timers,
                   invocations>>
    /\ UNCHANGED <<now, chain>>

(* useFhevm publishes isInitialized = true: while the initialize() that   *)
(* succeeds is still pending, or after its promise has resolved           *)
HookPublish ==
    /\ inFlight > 0 \/ hookDone
    /\ ~isInitialized
    /\ isInitialized' = TRUE
    /\ last' = [op |-> "hook"]
    /\ UNCHANGED <<isConnected, fhevmInitializing, initialize, rendered,
                   effectDue, inFlight, hookDone, transactionStatus, timers,
                   invocations>>
    /\ UNCHANGED <<now, chain>>

(* a render with a changed dependency: the effect is due again *)
Render ==
    /\ ~effectDue
    /\ rendered # Deps
    /\ rendered' = Deps
    /\ effectDue' = TRUE
    /\ last' = [op |-> "render"]
    /\ UNCHANGED <<isConnected, isInitialized, fhevmInitializing, initialize,
                   inFlight, hookDone, transactionStatus, timers,
                   invocations>>
    /\ UNCHANGED <<now, chain>>

(* initFhevmAfterConnection up to the await of line 54 *)
RunEffect ==
    /\ effectDue
    /\ effectDue' = FALSE
    /\ last' = [op |-> "effect", invoked |-> effectInvokes(rendered)]
    /\ IF effectInvokes(rendered)
       THEN /\ fhevmInitializing' = TRUE
            /\ inFlight' = inFlight + 1
            /\ invocations' = invocations + 1
       ELSE UNCHANGED <<fhevmInitializing, inFlight, invocations>>
    /\ UNCHANGED <<isConnected, isInitialized, initialize, rendered,
                   hookDone, transactionStatus, timers>>
    /\ UNCHANGED <<now, chain>>

(* the awaited promise resolves: line 54 returns, then the finally block *)
Resolve ==
    /\ inFlight > 0
    /\ inFlight' = inFlight - 1
    /\ hookDone' = TRUE
    /\ fhevmInitializing' = afterSettle(fhevmInitializing, "resolved")
    /\ last' = [op |-> "settle", outcome |-> "resolved"]
    /\ UNCHANGED <<isConnected, isInitialized, initialize, rendered,
                   effectDue, transactionStatus, timers, invocations>>
    /\ UNCHANGED <<now, chain>>

(* the awaited promise rejects: the catch block of lines 55-62, then the  *)
(* finally block                                                          *)
Reject ==
    /\ inFlight > 0
    /\ inFlight' = inFlight - 1
    /\ transactionStatus' = "error"
    /\ timers' = timers + 1
    /\ fhevmInitializing' = afterSettle(fhevmInitializing, "rejected")
    /\ last' = [op |-> "settle", outcome |-> "rejected"]
    /\ UNCHANGED <<isConnected, isInitialized, initialize, rendered,
                   effectDue, hookDone, invocations>>
    /\ UNCHANGED <<now, chain>>

(* the timeout of line 61 hides the error message *)
TimerFire ==
    /\ timers > 0
    /\ timers' = timers - 1
    /\ transactionStatus' = "hidden"
    /\ last' = [op |-> "timer"]
    /\ UNCHANGED <<isConnected, isInitialized, fhevmInitializing, initialize,
                   rendered, effectDue, inFlight, hookDone, invocations>>
    /\ UNCHANGED <<now, chain>>

InitApp ==
    /\ now = StartTime
    /\ Deployed
    /\ \E connected \in BOOLEAN : Mounted(connected)

NextApp ==
    \/ Connect
    \/ Disconnect
    \/ InitializeChanged
    \/ HookPublish
    \/ Render
    \/ /\ effectInvokes(rendered) => invocations < MaxInits
       /\ RunEffect
    \/ Resolve
    \/ Reject
    \/ TimerFire

SpecApp == InitApp /\ [][NextApp]_vars

----------------------------------------------------------------------------
(* Vocabulary of the properties *)

Registered(n) == auctionExists[n]

(* the log of n holds an AuctionConcluded event *)
Concluded(n) ==
    \E i \in 1 .. Len(events[n]) : events[n][i].name = "AuctionConcluded"

CountEvents(n, name) ==
    Cardinality({i \in 1 .. Len(events[n]) : events[n][i].name = name})

(* plaintext of the i-th accepted bid of n *)
BidValue(n, i) == Plain(bids[n][i].encryptedBid)

MaxBidValue(n) ==
    CHOOSE v \in Values :
        /\ \E i \in 1 .. Len(bids[n]) : BidValue(n, i) = v
        /\ \A i \in 1 .. Len(bids[n]) : BidValue(n, i) <= v

(* index of the first accepted bid that carries the maximal value *)
FirstMaxIndex(n) ==
    CHOOSE i \in 1 .. Len(bids[n]) :
        /\ BidValue(n, i) = MaxBidValue(n)
        /\ \A j \in 1 .. (i - 1) : BidValue(n, j) < MaxBidValue(n)

(* the latest step was a call of op on n *)
Called(op, n) == last.op = op /\ last.nftId = n

----------------------------------------------------------------------------
(* C1: after any sequence of accepted bids, the recorded highest bidder   *)
(* is the bidder of the first accepted bid that carries the maximal       *)
(* plaintext value.                                                       *)
C1_HighestBidderIsFirstMax ==
    \A n \in NftIds :
        Len(bids[n]) >= 1 =>
            auctions[n].highestBidder = bids[n][FirstMaxIndex(n)].bidder

(* C2: round trip.  With at least one accepted bid, a concludeAuction     *)
(* after the window that carries the plaintext of the stored highest-bid  *)
(* handle and the proof issued for that handle succeeds, and the          *)
(* winningBid of every AuctionConcluded event is the maximum of the       *)
(* accepted plaintext values.                                             *)
C2_RoundTrip ==
    \A n \in NftIds :
        Len(bids[n]) >= 1 =>
            /\ (Registered(n) /\ now > auctions[n].endTime /\ ~Concluded(n))
                 => concludeAuctionResult(n, Plain(auctions[n].highestBid),
                                          auctions[n].highestBid) = OK
            /\ \A i \in 1 .. Len(events[n]) :
                 events[n][i].name = "AuctionConcluded"
                   => events[n][i].winningBid = MaxBidValue(n)

C2_Witness ==
    \E n \in NftIds :
        /\ Called("concludeAuction", n) /\ last.res = OK
        /\ Len(bids[n]) = 2
        /\ BidValue(n, 1) = 0 /\ BidValue(n, 2) = 1
        /\ bids[n][1].bidder # bids[n][2].bidder
        /\ events[n][Len(events[n])].winningBid = 1
        /\ events[n][Len(events[n])].winner = bids[n][2].bidder

(* C3: a placeBid on a registered auction at a time before start or after *)
(* end fails and changes neither the ledger, the registry entry nor the   *)
(* log.                                                                   *)
C3_OutOfWindowBidFails ==
    [][\A n \in NftIds :
         ( /\ Registered(n)
           /\ now < auctions[n].startTime \/ now > auctions[n].endTime
           /\ Called("placeBid", n)' )
         => (last'.res # OK /\ UNCHANGED chain)]_vars

C3_Witness ==
    \E n \in NftIds :
        /\ Called("placeBid", n) /\ last.res = Expired
        /\ auctions[n].isActive /\ now > auctions[n].endTime
        /\ Len(bids[n]) >= 1

(* C4: once an auction is concluded, every further concludeAuction on it  *)
(* fails with AlreadyConcluded and changes nothing; its log never holds   *)
(* more than one AuctionConcluded event.                                  *)
C4_ConcludeOnce ==
    [][\A n \in NftIds :
         /\ (Concluded(n) /\ Called("concludeAuction", n)')
              => (last'.res = AlreadyConcluded /\ UNCHANGED chain)
         /\ Concluded(n) =>
              \A c \in Values, p \in DecryptionProofs :
                  concludeAuctionResult(n, c, p) = AlreadyConcluded
         /\ CountEvents(n, "AuctionConcluded")' <= 1]_vars

C4_Witness ==
    \E n \in NftIds :
        /\ Concluded(n)
        /\ Called("concludeAuction", n) /\ last.res = AlreadyConcluded
        /\ now > auctions[n].endTime + 1

(* the supplied pair is the plaintext of the stored handle together with  *)
(* the proof issued for that handle                                       *)
Attests(n, c, p) ==
    p = auctions[n].highestBid /\ c = Plain(auctions[n].highestBid)

(* C5: on an expired auction that is not concluded, a concludeAuction     *)
(* whose proof does not attest the supplied cleartext for the stored      *)
(* handle fails with InvalidProof; the failed call changes nothing, and   *)
(* the call with the attested pair still succeeds afterwards.             *)
C5_InvalidProofRejected ==
    [][\A n \in NftIds :
         (Registered(n) /\ now > auctions[n].endTime /\ ~Concluded(n)) =>
            /\ \A c \in Values, p \in DecryptionProofs :
                 ~Attests(n, c, p)
                   => concludeAuctionResult(n, c, p) = InvalidProof
            /\ (Called("concludeAuction", n)' /\ last'.res # OK) =>
                 /\ last'.res = InvalidProof
                 /\ UNCHANGED chain
                 /\ auctions'[n].isActive /\ ~Concluded(n)'
                 /\ concludeAuctionResult(n, Plain(auctions[n].highestBid),
                                          auctions[n].highestBid)' = OK]_vars

C5_Witness ==
    \E n \in NftIds :
        /\ Called("concludeAuction", n) /\ last.res = InvalidProof
        /\ auctions[n].isActive /\ Len(bids[n]) >= 1

(* C6: a concludeAuction on a registered auction at a time not after end  *)
(* (end itself included) fails with StillActive for every cleartext and   *)
(* proof, and leaves the auction active and everything else as it was; no *)
(* auction is concluded at a time that is not after its end.              *)
C6_StillActive ==
    [][\A n \in NftIds :
         /\ (Registered(n) /\ now <= auctions[n].endTime) =>
              /\ \A c \in Values, p \in DecryptionProofs :
                     concludeAuctionResult(n, c, p) = StillActive
              /\ auctions[n].isActive /\ ~Concluded(n)
              /\ Called("concludeAuction", n)' =>
                     /\ last'.res = StillActive
                     /\ UNCHANGED chain
                     /\ auctions'[n].isActive
         /\ (Called("concludeAuction", n)' /\ last'.res = OK)
              => now > auctions[n].endTime]_vars

C6_Witness ==
    \E n \in NftIds :
        /\ Called("concludeAuction", n) /\ last.res = StillActive
        /\ now = auctions[n].endTime /\ now > auctions[n].startTime
        /\ Len(bids[n]) >= 1

(* C7: after conclusion every placeBid on the auction fails, and the      *)
(* ledger, the highest-bid handle and the highest bidder never change     *)
(* again.                                                                 *)
C7_NoBidAfterConclusion ==
    [][\A n \in NftIds :
         Concluded(n) =>
            /\ Called("placeBid", n)' => (last'.res # OK /\ UNCHANGED chain)
            /\ bids'[n] = bids[n]
            /\ auctions'[n].highestBid = auctions[n].highestBid
            /\ auctions'[n].highestBidder = auctions[n].highestBidder]_vars

C7_Witness ==
    \E n \in NftIds :
        /\ Concluded(n) /\ Called("placeBid", n) /\ last.res # OK
        /\ Len(bids[n]) >= 1

(* C8 as stated: a placeBid on a registered auction after end fails with  *)
(* Expired whatever the active flag, the ledger count unchanged.          *)
C8_ExpiredWhateverActive ==
    [][\A n \in NftIds :
         (Registered(n) /\ now > auctions[n].endTime
            /\ Called("placeBid", n)')
         => (last'.res = Expired /\ Len(bids'[n]) = Len(bids[n]))]_vars

(* C8 amended: a placeBid on a registered auction after end fails with    *)
(* Expired while the active flag is set and with Inactive once it is      *)
(* cleared, the active flag being tested before the window; the ledger    *)
(* count is unchanged.                                                    *)
C8_ExpiredOrInactive ==
    [][\A n \in NftIds :
         (Registered(n) /\ now > auctions[n].endTime
            /\ Called("placeBid", n)')
         => /\ last'.res = IF auctions[n].isActive THEN Expired
                           ELSE Inactive
            /\ Len(bids'[n]) = Len(bids[n])]_vars

C8_Witness ==
    \E n \in NftIds :
        /\ Registered(n) /\ now > auctions[n].endTime
        /\ ~auctions[n].isActive
        /\ Called("placeBid", n) /\ last.res = Inactive

(* C9: createAuction on a registered id fails with AlreadyExists and      *)
(* changes nothing, in every lifecycle state of the auction; an id is     *)
(* created at most once.                                                  *)
C9_CreateOnce ==
    [][\A n \in NftIds :
         /\ Registered(n) =>
              /\ \A d \in Durations :
                     createAuctionResult(n, d) = AlreadyExists
              /\ Called("createAuction", n)' =>
                     (last'.res = AlreadyExists /\ UNCHANGED chain)
         /\ CountEvents(n, "AuctionCreated")' <= 1]_vars

C9_Witness ==
    \E n \in NftIds :
        /\ Concluded(n) /\ Len(bids[n]) >= 1
        /\ Called("createAuction", n) /\ last.res = AlreadyExists

(* C10: a successful createAuction(id, duration) at time now stores       *)
(* start = now, end = now + duration, active, the encrypted zero as       *)
(* highest bid and no highest bidder, leaves the ledger of id empty and   *)
(* appends exactly the event AuctionCreated(id, now, now + duration).     *)
C10_CreateEffect ==
    [][\A n \in NftIds :
         (Called("createAuction", n)' /\ last'.res = OK) =>
            /\ auctionExists'[n]
            /\ auctions'[n].startTime = now
            /\ auctions'[n].endTime = now + last'.duration
            /\ auctions'[n].isActive
            /\ auctions'[n].highestBid = ZeroHandle
            /\ Plain(auctions'[n].highestBid) = 0
            /\ auctions'[n].highestBidder = 0
            /\ bids'[n] = << >>
            /\ events'[n] = Append(events[n],
                    [name |-> "AuctionCreated", nftId |-> n,
                     startTime |-> now,
                     endTime |-> now + last'.duration])
            /\ CountEvents(n, "AuctionCreated")' = 1]_vars

C10_Witness ==
    \E n \in NftIds :
        /\ Called("createAuction", n) /\ last.res = OK /\ last.duration = 1
        /\ now > StartTime

----------------------------------------------------------------------------
(* the AuctionConcluded event of n, once there is one *)
ConcludedEvent(n) ==
    events[n][CHOOSE i \in 1 .. Len(events[n]) :
                  events[n][i].name = "AuctionConcluded"]

(* what the stored Auction struct of n holds beyond the fields of lines   *)
(* 8-13: a concluded flag and a revealed winning amount, if it has them   *)
StoredConcludedFlag(n) ==
    "concluded" \in DOMAIN auctions[n] /\ auctions[n].concluded

StoredWinningBid(n) ==
    IF "winningBid" \in DOMAIN auctions[n] THEN {auctions[n].winningBid}
    ELSE {}

(* C11 as stated: the stored active flag of a registered auction is true  *)
(* only while now is within [start, end] and the auction is not           *)
(* concluded.                                                             *)
C11_ActiveOnlyInWindow ==
    \A n \in NftIds :
        (Registered(n) /\ auctions[n].isActive) =>
            /\ auctions[n].startTime <= now /\ now <= auctions[n].endTime
            /\ ~Concluded(n)

(* C11 amended: the stored active flag is true exactly while the auction  *)
(* is registered and not concluded, and never before start; the passing   *)
(* of end does not clear it.                                              *)
C11_ActiveUntilConcluded ==
    \A n \in NftIds :
        /\ auctions[n].isActive <=> (Registered(n) /\ ~Concluded(n))
        /\ auctions[n].isActive => auctions[n].startTime <= now

C11_Witness ==
    \E n \in NftIds :
        /\ Registered(n) /\ auctions[n].isActive
        /\ now > auctions[n].endTime + 1
        /\ Len(bids[n]) >= 1
        /\ Called("concludeAuction", n) /\ last.res = InvalidProof

(* C12: for every registered auction the highest bidder is non-null if    *)
(* and only if the ledger holds at least one accepted bid, whatever the   *)
(* plaintext values of the bids.                                          *)
C12_BidderIffBid ==
    \A n \in NftIds :
        Registered(n) =>
            (auctions[n].highestBidder # 0 <=> Len(bids[n]) >= 1)

(* C13: whenever concludeAuction succeeds, the stored highest-bid handle  *)
(* it verified had been marked publicly decryptable before.               *)
C13_VerifiedHandleWasMarked ==
    [][\A n \in NftIds :
         (Called("concludeAuction", n)' /\ last'.res = OK)
            => auctions[n].highestBid \in publiclyDecryptable]_vars

C15_LedgerAppendOnly ==
    [][\A n \in NftIds :
         /\ Len(bids'[n]) >= Len(bids[n])
         /\ SubSeq(bids'[n], 1, Len(bids[n])) = bids[n]
         /\ Len(bids'[n]) =
               IF Called("placeBid", n)' /\ last'.res = OK
               THEN Len(bids[n]) + 1 ELSE Len(bids[n])
         /\ Registered(n)' =>
               /\ getBidCount(n)'.res = OK
               /\ getBidCount(n)'.val = CountEvents(n, "BidPlaced")'
               /\ getBidCount(n)'.val = Len(bids'[n])]_vars

(* a second bid that does not become the highest has been appended *)
C15_Witness ==
    \E n \in NftIds :
        /\ Called("placeBid", n) /\ last.res = OK
        /\ Len(bids[n]) = 2
        /\ auctions[n].highestBid = bids[n][1].encryptedBid
        /\ bids[n][2].encryptedBid # bids[n][1].encryptedBid
        /\ bids[n][2].timestamp > bids[n][1].timestamp

(* the rejections of lines 66-67 *)
InvalidCiphertextErrors == {InvalidInput, InvalidCiphertext}

(* C16: inside the window of an active auction, a placeBid whose          *)
(* encryption proof does not verify fails with InvalidCiphertext, and a   *)
(* placeBid that fails so appends no entry, leaves the highest bid and    *)
(* bidder, marks no handle and emits no event.                            *)
C16_InvalidCiphertextRejected ==
    [][\A n \in NftIds :
         onlyActiveAuction(n) = OK =>
            /\ \A sender \in Bidders :
               \A encryptedBid \in ExternalInputs(sender) :
                  placeBidResult(n, sender, encryptedBid, "bad")
                      \in InvalidCiphertextErrors
            /\ (Called("placeBid", n)' /\ last'.res # OK) =>
                  /\ last'.res \in InvalidCiphertextErrors
                  /\ UNCHANGED chain]_vars

C16_Witness ==
    \E n \in NftIds :
        /\ Called("placeBid", n) /\ last.res = InvalidInput
        /\ onlyActiveAuction(n) = OK
        /\ Len(bids[n]) >= 1

(* C17: no step replaces the stored highest-bid handle of an auction by   *)
(* a handle of a smaller plaintext.                                       *)
C17_HighestBidMonotone ==
    [][\A n \in NftIds :
         Plain(auctions'[n].highestBid) >= Plain(auctions[n].highestBid)]_vars

(* a bid below the running maximum has been accepted *)
C17_Witness ==
    \E n \in NftIds :
        /\ Called("placeBid", n) /\ last.res = OK
        /\ Len(bids[n]) = 2
        /\ BidValue(n, 1) = 1 /\ BidValue(n, 2) = 0
        /\ Plain(auctions[n].highestBid) = 1

(* what the contract holds for id n *)
Slots(n) == <<auctionExists[n], auctions[n], bids[n], events[n]>>

(* the outcome every call on n would have *)
Outcomes(n) ==
    << [d \in Durations |-> createAuctionResult(n, d)],
       [x \in Bidders \X InputHandles \X InputProofs |->
            placeBidResult(n, x[1], x[2], x[3])],
       [y \in Values \X DecryptionProofs |->
            concludeAuctionResult(n, y[1], y[2])] >>

(* C18: a createAuction, placeBid or concludeAuction on an id a,          *)
(* successful or not, leaves the registry entry, the ledger, the          *)
(* existence flag and the log of every other id b as they were, and       *)
(* leaves the outcome of every call on b as it was.                       *)
C18_NoSharedState ==
    [][\A a \in NftIds : \A b \in NftIds \ {a} :
         ( /\ last'.op \in {"createAuction", "placeBid", "concludeAuction"}
           /\ last'.nftId = a )
         => (Slots(b)' = Slots(b) /\ Outcomes(b)' = Outcomes(b))]_vars

(* a bid is accepted on one id while the other id is already concluded *)
C18_Witness ==
    \E a \in NftIds : \E b \in NftIds \ {a} :
        /\ Called("placeBid", a) /\ last.res = OK
        /\ Concluded(b) /\ Len(bids[b]) >= 1
        /\ auctions[a].isActive

(* some placeBid on n would be accepted now *)
CanPlaceBid(n) ==
    \E sender \in Bidders, inputProof \in InputProofs :
    \E encryptedBid \in ExternalInputs(sender) :
        placeBidResult(n, sender, encryptedBid, inputProof) = OK

(* some concludeAuction on n would succeed now *)
CanConclude(n) ==
    \E c \in Values, p \in DecryptionProofs :
        concludeAuctionResult(n, c, p) = OK

(* C19: with the callers' atomic calls interleaved in any order, there    *)
(* is no state in which both a placeBid and a concludeAuction on the same *)
(* id can succeed, every BidPlaced event of an id precedes its            *)
(* AuctionConcluded event, and the handle verified at conclusion carries  *)
(* the maximum of all bids ever accepted for the id.                      *)
C19_BidsPrecedeConclusion ==
    \A n \in NftIds :
        /\ ~(CanPlaceBid(n) /\ CanConclude(n))
        /\ \A i, j \in 1 .. Len(events[n]) :
              ( /\ events[n][i].name = "AuctionConcluded"
                /\ events[n][j].name = "BidPlaced" ) => j < i
        /\ (Concluded(n) /\ Len(bids[n]) >= 1) =>
              /\ Plain(auctions[n].highestBid) = MaxBidValue(n)
              /\ ConcludedEvent(n).winningBid = MaxBidValue(n)

(* two callers have bid, the auction is concluded and a late bid failed *)
C19_Witness ==
    \E n \in NftIds :
        /\ Len(events[n]) = 4
        /\ events[n][2].name = "BidPlaced" /\ events[n][3].name = "BidPlaced"
        /\ events[n][2].bidder # events[n][3].bidder
        /\ events[n][4].name = "AuctionConcluded"
        /\ Called("placeBid", n) /\ last.res # OK

(* the ledger holds exactly the bids of the script, each at its time *)
ScenarioLedger ==
    [k \in 1 .. Len(ScenarioBids) |->
        [bidder |-> ScenarioBids[k].bidder,
         encryptedBid |-> ScenarioHandle(ScenarioBids[k]),
         timestamp |-> ScenarioBids[k].at]]

(* C20: createAuction("nft-1", 3600) at 1000, accepted bids 50 at 1100,   *)
(* 80 at 1200 and 30 at 1300: the bidder of 80 is the highest bidder, the *)
(* concludeAuction at 4700 with the proof for 80 succeeds and emits       *)
(* AuctionConcluded("nft-1", bidder of 80, 80), and getBidCount is 3.     *)
C20_Scenario ==
    (Registered(ScenarioId) /\ bids[ScenarioId] = ScenarioLedger) =>
        /\ auctions[ScenarioId].startTime = 1000
        /\ auctions[ScenarioId].endTime = 4600
        /\ auctions[ScenarioId].highestBidder = ScenarioBids[2].bidder
        /\ auctions[ScenarioId].highestBid = ScenarioHandle(ScenarioBids[2])
        /\ getBidCount(ScenarioId) = [res |-> OK, val |-> 3]
        /\ (now = 4700 /\ ~Concluded(ScenarioId)) =>
              concludeAuctionResult(ScenarioId, 80,
                                    ScenarioHandle(ScenarioBids[2])) = OK
        /\ Concluded(ScenarioId) =>
              /\ ConcludedEvent(ScenarioId) =
                    [name |-> "AuctionConcluded", nftId |-> "nft-1",
                     winner |-> ScenarioBids[2].bidder, winningBid |-> 80]
              /\ Len(events[ScenarioId]) = 5

C20_Witness ==
    /\ Called("concludeAuction", ScenarioId) /\ last.res = OK
    /\ now = 4700
    /\ bids[ScenarioId] = ScenarioLedger
    /\ events[ScenarioId][5].winningBid = 80
    /\ events[ScenarioId][5].winner = 2

----------------------------------------------------------------------------
(* the largest plaintext among the accepted bids of n other than the      *)
(* first one that carries the maximum: the second-highest accepted value  *)
SecondBidValue(n) ==
    LET rest == (1 .. Len(bids[n])) \ {FirstMaxIndex(n)}
    IN  CHOOSE v \in Values :
            /\ \E i \in rest : BidValue(n, i) = v
            /\ \A i \in rest : BidValue(n, i) <= v

(* C21: the auction is second-price.  Once an auction with at least two   *)
(* accepted bids is concluded, the winner of its AuctionConcluded event   *)
(* is the recorded highest bidder and the price of the event is the       *)
(* second-highest accepted bid value.                                     *)
C21_SecondPrice ==
    \A n \in NftIds :
        (Concluded(n) /\ Len(bids[n]) >= 2) =>
            /\ ConcludedEvent(n).winner = auctions[n].highestBidder
            /\ ConcludedEvent(n).winningBid = SecondBidValue(n)

(* the BidPlaced events of n, in emission order *)
BidPlacedEvents(n) ==
    SelectSeq(events[n], LAMBDA e : e.name = "BidPlaced")

(* C22: on a registered auction getBid(id, index) fails with              *)
(* IndexOutOfRange for every index >= getBidCount(id); for every index    *)
(* below it returns the bidder, handle and timestamp of the index-th      *)
(* accepted bid in submission order: the bidder of the index-th BidPlaced *)
(* event, at a timestamp not before those of the earlier entries; an      *)
(* accepted placeBid is returned at the index of the former count, with   *)
(* the time of the call, and the answers below that index stay.           *)
C22_GetBid ==
    [][\A n \in NftIds :
         Registered(n)' =>
            /\ \A i \in Indexes :
                 i >= getBidCount(n)'.val
                    => getBid(n, i)' = [res |-> InvalidIndex, val |-> << >>]
            /\ \A i \in Indexes :
                 i < getBidCount(n)'.val =>
                    /\ getBid(n, i)'.res = OK
                    /\ getBid(n, i)'.val[1] = BidPlacedEvents(n)'[i + 1].bidder
                    /\ FHE_isInitialized(getBid(n, i)'.val[2])
                    /\ \A j \in 0 .. (i - 1) :
                          getBid(n, j)'.val[3] <= getBid(n, i)'.val[3]
                    /\ i < Len(bids[n]) => getBid(n, i)' = getBid(n, i)
            /\ \A k \in Indexes :
                 ( /\ Called("placeBid", n)' /\ last'.res = OK
                   /\ k = Len(bids[n]) ) =>
                    /\ getBid(n, k).res = InvalidIndex
                    /\ getBid(n, k)'.res = OK
                    /\ getBid(n, k)'.val[3] = now]_vars

(* the second of two bids by different bidders has just been accepted *)
C22_Witness ==
    \E n \in NftIds :
        /\ Called("placeBid", n) /\ last.res = OK
        /\ getBidCount(n).val = 2
        /\ getBid(n, 0).val[1] # getBid(n, 1).val[1]
        /\ getBid(n, 0).val[3] < getBid(n, 1).val[3]
        /\ getBid(n, 2).res = InvalidIndex

(* C23: on an unregistered id placeBid, concludeAuction,                  *)
(* getAuctionDetails, getBidCount, getBid and getHighestBid fail with     *)
(* NotFound for every argument, and a failing call changes nothing.  The  *)
(* blank slot of the id is inactive with end 0, so the conditions of      *)
(* Inactive, Expired and AlreadyConcluded hold as well, and so does that  *)
(* of an invalid ciphertext or proof for some arguments: NotFound is      *)
(* reported before all of them.                                           *)
C23_NotFoundFirst ==
    [][\A n \in NftIds :
         ~Registered(n) =>
            /\ ~auctions[n].isActive /\ now > auctions[n].endTime
            /\ \A sender \in Bidders, inputProof \in InputProofs :
               \A encryptedBid \in ExternalInputs(sender) :
                  placeBidResult(n, sender, encryptedBid, inputProof)
                      = NotFound
            /\ \A c \in Values, p \in DecryptionProofs :
                  concludeAuctionResult(n, c, p) = NotFound
            /\ getAuctionDetails(n).res = NotFound
            /\ getBidCount(n).res = NotFound
            /\ getHighestBid(n).res = NotFound
            /\ \A i \in Indexes : getBid(n, i).res = NotFound
            /\ ( /\ last'.op \in {"placeBid", "concludeAuction"}
                 /\ last'.nftId = n )
               => (last'.res = NotFound /\ UNCHANGED chain)]_vars

(* a conclusion was attempted on an id nobody has registered, at a time   *)
(* after the first block                                                  *)
C23_Witness ==
    \E n \in NftIds :
        /\ ~Registered(n)
        /\ Called("concludeAuction", n) /\ last.res = NotFound
        /\ now > StartTime

(* C24: every registered auction has start <= end, with end inside the    *)
(* unsigned range; a createAuction whose now + duration exceeds the range *)
(* fails for every id, and the failed call registers nothing and changes  *)
(* nothing.                                                               *)
C24_StartBeforeEnd ==
    [][\A n \in NftIds :
         /\ Registered(n)' =>
              /\ auctions'[n].startTime <= auctions'[n].endTime
              /\ auctions'[n].endTime <= MaxUint
         /\ \A d \in Durations :
              now + d > MaxUint => createAuctionResult(n, d) # OK
         /\ (Called("createAuction", n)' /\ now + last'.duration > MaxUint)
              => /\ last'.res # OK
                 /\ UNCHANGED chain
                 /\ Registered(n)' = Registered(n)]_vars

(* a creation overflowed on an id that is not registered, and the id is   *)
(* still unregistered                                                     *)
C24_Witness ==
    \E n \in NftIds :
        /\ Called("createAuction", n) /\ last.res = Overflow
        /\ last.duration = MaxUint
        /\ ~Registered(n)

(* C25: for every registered auction either the highest-bid handle is the *)
(* initial encrypted zero and there is no highest bidder, or some ledger  *)
(* entry carries both the highest-bid handle and the highest bidder.  No  *)
(* step changes the highest bidder of a registered auction and keeps its  *)
(* handle, and a step that changes the handle is an accepted placeBid     *)
(* that sets both fields from the entry it appends.                       *)
C25_HandleBidderConsistent ==
    [][\A n \in NftIds :
         /\ Registered(n)' =>
              \/ /\ auctions'[n].highestBid = ZeroHandle
                 /\ auctions'[n].highestBidder = 0
              \/ \E i \in 1 .. Len(bids'[n]) :
                    /\ bids'[n][i].encryptedBid = auctions'[n].highestBid
                    /\ bids'[n][i].bidder = auctions'[n].highestBidder
         /\ Registered(n) =>
              /\ auctions'[n].highestBidder # auctions[n].highestBidder
                    => auctions'[n].highestBid # auctions[n].highestBid
              /\ auctions'[n].highestBid # auctions[n].highestBid =>
                    /\ Called("placeBid", n)' /\ last'.res = OK
                    /\ bids'[n][Len(bids'[n])].encryptedBid
                          = auctions'[n].highestBid
                    /\ bids'[n][Len(bids'[n])].bidder
                          = auctions'[n].highestBidder]_vars

(* the second bidder has just taken the lead from the first *)
C25_Witness ==
    \E n \in NftIds :
        /\ Called("placeBid", n) /\ last.res = OK
        /\ Len(bids[n]) = 2
        /\ bids[n][1].bidder # bids[n][2].bidder
        /\ BidValue(n, 1) < BidValue(n, 2)
        /\ auctions[n].highestBid = bids[n][2].encryptedBid
        /\ auctions[n].highestBidder = bids[n][2].bidder

(* C26: no step clears the existence flag of an id, sets the active flag  *)
(* of a registered auction that has it cleared, or changes the start or   *)
(* end time of a registered auction.                                      *)
C26_OneWayFlags ==
    [][\A n \in NftIds :
         /\ auctionExists[n] => auctionExists'[n]
         /\ Registered(n) =>
              /\ ~auctions[n].isActive => ~auctions'[n].isActive
              /\ auctions'[n].startTime = auctions[n].startTime
              /\ auctions'[n].endTime = auctions[n].endTime]_vars

(* a creation was attempted on an auction that ran for one unit of time   *)
(* and has been concluded, after bids and a failed late bid               *)
C26_Witness ==
    \E n \in NftIds :
        /\ Registered(n) /\ ~auctions[n].isActive
        /\ auctions[n].endTime = auctions[n].startTime + 1
        /\ now > auctions[n].endTime
        /\ Len(bids[n]) = MaxBids
        /\ Called("createAuction", n) /\ last.duration = 0

(* C27: in every state where an auction is registered, active and past    *)
(* its end, the concludeAuction that carries the plaintext of the stored  *)
(* highest-bid handle and the proof issued for that handle succeeds,      *)
(* whatever the number of accepted bids; a concludeAuction that succeeds  *)
(* clears the active flag and appends AuctionConcluded(id, the highest    *)
(* bidder of that moment, the supplied cleartext), which is the plaintext *)
(* of the stored handle, and changes nothing else.                        *)
C27_ConclusionReachable ==
    [][\A n \in NftIds :
         (Registered(n) /\ auctions[n].isActive /\ now > auctions[n].endTime)
         => /\ concludeAuctionResult(n, Plain(auctions[n].highestBid),
                                     auctions[n].highestBid) = OK
            /\ (Called("concludeAuction", n)' /\ last'.res = OK) =>
                 /\ auctions'[n] = [auctions[n] EXCEPT !.isActive = FALSE]
                 /\ events'[n] = Append(events[n],
                        [name |-> "AuctionConcluded", nftId |-> n,
                         winner |-> auctions[n].highestBidder,
                         winningBid |-> Plain(auctions[n].highestBid)])
                 /\ UNCHANGED <<auctionExists, bids, allowedThis,
                                publiclyDecryptable>>]_vars

(* an auction nobody bid on has just been concluded *)
C27_Witness ==
    \E n \in NftIds :
        /\ Called("concludeAuction", n) /\ last.res = OK
        /\ Len(bids[n]) = 0
        /\ ~auctions[n].isActive
        /\ events[n][Len(events[n])].winner = 0
        /\ events[n][Len(events[n])].winningBid = 0

(* C28: the effect calls initialize() only from a render whose            *)
(* isConnected is true and whose isInitialized and fhevmInitializing are  *)
(* false, and only while no earlier invocation is pending, so at most one *)
(* invocation is pending at any time; while an invocation is pending      *)
(* fhevmInitializing is true, and the step in which an invocation         *)
(* settles, resolved or rejected, leaves fhevmInitializing false.         *)
C28_InitializeGuarded ==
    [][ /\ (last'.op = "effect" /\ last'.invoked) =>
              /\ rendered.isConnected
              /\ ~rendered.isInitialized
              /\ ~rendered.fhevmInitializing
              /\ inFlight = 0 /\ ~fhevmInitializing
              /\ inFlight' = 1 /\ fhevmInitializing'
        /\ inFlight' <= 1
        /\ inFlight' > 0 => fhevmInitializing'
        /\ last'.op = "settle" => ~fhevmInitializing' ]_vars

(* initialize() has been invoked a second time, after the first           *)
(* invocation was rejected and while its error message is still shown     *)
C28_Witness ==
    /\ last.op = "effect" /\ last.invoked
    /\ invocations = 2
    /\ inFlight = 1
    /\ transactionStatus = "error"
    /\ rendered.isConnected /\ ~isInitialized

====
